---- MODULE Spec2Model ----
(***************************************************************************)
(* Model of main.py: the hybrid voice recogniser.  One foreground thread   *)
(* runs main(), which per iteration picks a language, probes the network   *)
(* and runs either recognize_google_stream (online) or                     *)
(* recognize_vosk_stream (offline).  The offline driver shares the module- *)
(* level queue q with the capture callback, which the audio subsystem      *)
(* calls on its own thread while the RawInputStream is open.               *)
(*                                                                         *)
(* The program counter pc names the source line the foreground thread is   *)
(* about to execute.  Strings of the program are sequences of characters.  *)
(*                                                                         *)
(* Both files are opened in append mode only, and the drivers only ever    *)
(* subtract two readings of time.time().  The model therefore keeps, of    *)
(* each file, the lines appended during the current iteration of main()'s  *)
(* loop, and counts time in whole seconds from the start of the iteration. *)
(* When the clock reaches MaxTime its origin moves forward with it, so     *)
(* that differences of readings saturate at MaxTime instead of growing.    *)
(* Locals that are dead (a function returned, a value was consumed) are    *)
(* put back to their initial value.                                        *)
(***************************************************************************)
EXTENDS Naturals, Integers, Sequences, FiniteSets, TLC

(* ---- bounds of the model ---- *)
MaxTime == 7          \* largest reading of the clock; past it the origin moves
MaxFragments == 2     \* non-empty fragments recognised per session
MaxFrames == 2        \* frames the capture callback delivers in a run

(* ---- CONFIG and in-line constants of the program ---- *)
silence_timeout == 5
\* recognizer.listen(source, timeout=5, phrase_time_limit=10)
listen_timeout == 5
phrase_time_limit == 10
\* q.get(timeout=0.1): less than a second, so one poll sees at most one tick
poll_timeout == 1
hindi_model_path == "vosk-model-hi-0.22"
english_model_path == "vosk-model-en-in-0.5"

LANGUAGES ==
    [c \in {"1", "2", "3"} |->
        CASE c = "1" -> [code |-> "hi-IN", name |-> "Hindi"]
          [] c = "2" -> [code |-> "en-IN", name |-> "English"]
          [] c = "3" -> [code |-> "mr-IN", name |-> "Marathi"]]

NoLang == [code |-> "", name |-> ""]

(* queue.Queue() is constructed without maxsize: 0 means "no limit". *)
QueueMaxSize == 0

(* ---- inputs the environment may supply ---- *)
\* what the recogniser (cloud or local) may return as a phrase
RawTexts == { <<>>, <<"a">>, <<" ", "b", " ">>, <<" ">> }
\* the in-progress hypothesis of the local decoder ("" while nobody speaks)
PartialTexts == { <<>>, <<"w">> }
\* what the user may type at a prompt
Inputs == {"", "q", "1", "2", "3", "x"}
\* how requests.get may end
ProbeOutcomes == {"response", "exception"}
\* how one listen()/recognize_google() round may end
ListenOutcomes == {"text", "WaitTimeoutError", "UnknownValueError", "RequestError"}

(* ---- str.strip() ---- *)
RECURSIVE LStrip(_)
LStrip(s) == IF s # <<>> /\ Head(s) = " " THEN LStrip(Tail(s)) ELSE s

RECURSIVE RStrip(_)
RStrip(s) ==
    IF s # <<>> /\ s[Len(s)] = " " THEN RStrip(SubSeq(s, 1, Len(s) - 1)) ELSE s

Strip(s) == RStrip(LStrip(s))

(* ---- bool(str): a string is truthy iff it is not empty ---- *)
Truthy(s) == Len(s) > 0

(* ---- rec.PartialResult(): the JSON document {"partial" : "<text>"} ---- *)
PartialResult(p) == <<"{", "\"partial\"", ":", "\"">> \o p \o <<"\"", "}">>

(* ---- json.loads(rec.Result()).get("text", "").strip() ---- *)
ResultText(r) == Strip(r.text)

(* ---- the line handed to save_transcript ---- *)
\* online: f"{lang['name']}: {session_text.strip()}"
GoogleLine(l, st) == [prefix |-> l.name, text |-> Strip(st)]
\* offline: session_text.strip()
VoskLineUnstripped(st) == [prefix |-> "", text |-> st]
VoskLine(st) == [prefix |-> "", text |-> Strip(st)]

(* ---- `if session_text.strip():` guarding every save_transcript ---- *)
ShouldFlushAlways(st) == TRUE
ShouldFlush(st) == Strip(st) # <<>>

(* ---- session_text += " " + text ---- *)
AppendFragmentInFront(st, t) == t \o <<" ">> \o st
AppendFragment(st, t) == st \o <<" ">> \o t

(* ---- model path selection of main() ---- *)
ModelPathByDefaultHindi(code) ==
    IF code = "en-IN" THEN english_model_path ELSE hindi_model_path
ModelPath(code) ==
    IF code = "hi-IN" THEN hindi_model_path ELSE english_model_path

(* ---- which outcome of the cloud round is logged: except sr.RequestError ---- *)
LogsErrorAlsoOnTimeout(outcome) ==
    outcome \in {"RequestError", "WaitTimeoutError"}
LogsError(outcome) == outcome = "RequestError"

(* ---- `if rec.PartialResult(): last_speech_time = time.time()` ---- *)
ClockAfterPartialKept(lst, t, p) == lst
ClockAfterPartial(lst, t, p) == IF Truthy(PartialResult(p)) THEN t ELSE lst

(* ---- `if time.time() - last_speech_time > CONFIG["silence_timeout"]:` ---- *)
SilenceExpiredLate(t, lst) == t - lst > silence_timeout + 1
SilenceExpiredReversed(t, lst) == lst - t > silence_timeout
SilenceExpired(t, lst) == t - lst > silence_timeout

(* ---- how long the blocking call at a loop position can last ---- *)
\* listen() waits up to timeout for a phrase to start and records it for up
\* to phrase_time_limit; q.get waits up to its timeout
WaitLimit(p) ==
    IF p = "g109" THEN listen_timeout + phrase_time_limit
    ELSE IF p = "v165" THEN poll_timeout
    ELSE 0

(* ---- when one listen()/recognize_google() round can end in an outcome ---- *)
\* WaitTimeoutError: no phrase started within timeout; otherwise a phrase
\* was recorded, which takes time
ListenReturns(outcome, w) ==
    IF outcome = "WaitTimeoutError" THEN w = listen_timeout ELSE w >= 1

(* ---- line 121: `break` leaves the loop, the function returns to main() ---- *)
AfterErrorLoggedRetry == "g101"
AfterErrorLogged == "again"

(* ---- leaving `with sd.RawInputStream(...)` closes the stream ---- *)
CloseStreamSkipped(open) == open
CloseStream(open) == FALSE

(* ---- queue.Queue.put would wait only when a positive maxsize is reached ---- *)
QueueFullAtOne(queue) == Len(queue) >= 1
QueueFull(queue) == QueueMaxSize > 0 /\ Len(queue) >= QueueMaxSize

VARIABLES
    pc,                 \* source line the foreground thread is at
    lang,               \* main(): lang
    has_net,            \* main(): the value has_internet() returned
    backend,            \* "google", "vosk" or "none": the driver main() called
    model_path,         \* main(): model_path ("" until chosen)
    session_text,       \* driver local
    last_speech_time,   \* driver local
    now,                \* time.time(), counted from the iteration's start
    waited,             \* seconds spent in the current (or latest) blocking call
    text,               \* online: text returned by recognize_google
    exc,                \* online: the exception being handled ("" if none)
    data,               \* offline: the frame taken from q
    rec,                \* offline: decoder state after AcceptWaveform
    q,                  \* the module-level queue of frames
    stream_open,        \* the RawInputStream is open (callback may fire)
    cb_blocked,         \* the callback thread is waiting inside q.put
    transcript,         \* lines appended to transcript.txt in this iteration
    errors,             \* lines appended to errors.log in this iteration
    \* ---- history, not read by the program ----
    heard,              \* non-empty fragments recognised this session
    frags,              \* fragments appended to session_text this session
    ended_by,           \* how the last session ended
    enqueued,           \* frames ever put on q
    dequeued            \* frames ever taken from q

vars == << pc, lang, has_net, backend, model_path, session_text, last_speech_time, now, waited,
           text, exc, data, rec, q, stream_open, cb_blocked, transcript, errors,
           heard, frags, ended_by, enqueued, dequeued >>

sessionVars == << session_text, last_speech_time, text, exc, data, rec,
                 heard, frags >>
mainVars == << lang, has_net, backend, model_path >>
queueVars == << q, cb_blocked, enqueued, dequeued >>
sinkVars == << transcript, errors >>

NoRec == [final |-> FALSE, text |-> <<>>]
\* a frame; `session` records whether it was captured during the session
\* that is running now or during an earlier one
NoFrame == [session |-> "none"]
NewFrame == [session |-> "current"]
OldFrame == [session |-> "earlier"]

GooglePcs == {"g101", "g104", "g105", "g109", "g111", "g119", "g121"}
VoskPcs == {"v157", "v160", "v161", "v165", "v170", "v171"}
\* the session has decided to end and is flushing / leaving the loop
EndingPcs == {"g104", "g105", "g119", "g121", "v160", "v161"}
Listening == pc \in (GooglePcs \cup VoskPcs) \ EndingPcs
Ended == pc \in {"again", "exit"} /\ backend # "none"

Init ==
    /\ pc = "start"
    /\ lang = NoLang
    /\ has_net = FALSE
    /\ backend = "none"
    /\ model_path = ""
    /\ session_text = <<>>
    /\ last_speech_time = 0
    /\ now = 0
    /\ waited = 0
    /\ text = <<>>
    /\ exc = ""
    /\ data = NoFrame
    /\ rec = NoRec
    /\ q = <<>>
    /\ stream_open = FALSE
    /\ cb_blocked = FALSE
    /\ transcript = <<>>
    /\ errors = <<>>
    /\ heard = <<>>
    /\ frags = <<>>
    /\ ended_by = "none"
    /\ enqueued = 0
    /\ dequeued = 0

(* ---- save_transcript / log_error: append one line ---- *)
save_transcript(tr, line) == Append(tr, line)
log_error(er, e) == Append(er, e)

(***************************************************************************)
(* main() and its prompts                                                  *)
(***************************************************************************)
\* wait_for_start(): "q" exits the process, "" returns, anything else re-prompts
WaitForStart(inp) ==
    /\ pc = "start"
    /\ pc' = IF inp = "q" THEN "exit" ELSE IF inp = "" THEN "choose" ELSE "start"
    /\ UNCHANGED << mainVars, sessionVars, queueVars, sinkVars, now, waited,
                    stream_open, ended_by >>

\* choose_language(): loops until the choice is a key of LANGUAGES
ChooseLanguage(inp) ==
    /\ pc = "choose"
    /\ IF inp \in DOMAIN LANGUAGES
          THEN lang' = LANGUAGES[inp] /\ pc' = "probe"
          ELSE lang' = lang /\ pc' = "choose"
    /\ UNCHANGED << has_net, backend, model_path, sessionVars, queueVars, sinkVars, now, waited, stream_open,
                    ended_by >>

\* has_internet(): True iff requests.get returned, False if it raised
has_internet(outcome) ==
    /\ pc = "probe"
    /\ has_net' = (outcome = "response")
    /\ pc' = "m194"
    /\ UNCHANGED << lang, backend, model_path, sessionVars, queueVars,
                    sinkVars, now, waited, stream_open, ended_by >>

\* line 194-199: main() enters the chosen driver, which initialises its
\* locals (lines 95-96 / 150-153) and reaches its loop.
EnterDriver ==
    /\ pc = "m194"
    /\ session_text' = <<>>
    /\ last_speech_time' = now
    /\ IF has_net
          THEN /\ backend' = "google"
               /\ model_path' = model_path
               /\ stream_open' = FALSE
               /\ pc' = "g101"
          ELSE /\ backend' = "vosk"
               /\ model_path' = ModelPath(lang.code)
               /\ stream_open' = TRUE
               /\ pc' = "v157"
    /\ UNCHANGED << lang, has_net, text, exc, data, rec, heard, frags,
                    queueVars, sinkVars, now, waited, ended_by >>

\* "Press ENTER for new session or 'q' to quit"
Again(inp) ==
    /\ pc = "again"
    /\ pc' = IF inp = "q" THEN "exit" ELSE "start"
    \* the iteration is over: its locals are dead, the next iteration's
    \* clock and file suffixes start afresh, queued frames are now old
    /\ lang' = NoLang
    /\ has_net' = FALSE
    /\ backend' = "none"
    /\ model_path' = ""
    /\ last_speech_time' = 0
    /\ now' = 0
    /\ waited' = 0
    /\ text' = <<>>
    /\ exc' = ""
    /\ data' = NoFrame
    /\ rec' = NoRec
    /\ heard' = <<>>
    /\ frags' = <<>>
    /\ transcript' = <<>>
    /\ errors' = <<>>
    /\ ended_by' = "none"
    /\ q' = [i \in 1..Len(q) |-> OldFrame]
    /\ UNCHANGED << session_text, cb_blocked, enqueued, dequeued,
                    stream_open >>

(***************************************************************************)
(* time                                                                    *)
(***************************************************************************)
\* the clock advances while the foreground thread waits in listen() /
\* recognize_google() or in q.get()
Tick ==
    /\ waited < WaitLimit(pc)
    /\ waited' = waited + 1
    /\ IF now < MaxTime
          THEN /\ now' = now + 1
               /\ last_speech_time' = last_speech_time
          ELSE /\ now' = now
               /\ last_speech_time' =
                      IF last_speech_time > 0 THEN last_speech_time - 1 ELSE 0
    /\ UNCHANGED << pc, mainVars, session_text, text, exc, data, rec, heard,
                    frags, queueVars, sinkVars, stream_open, ended_by >>

(***************************************************************************)
(* recognize_google_stream(lang)                                           *)
(***************************************************************************)
\* line 101-102: the silence check at the top of every iteration
GoogleCheck ==
    /\ pc = "g101"
    /\ pc' = IF SilenceExpired(now, last_speech_time)
                THEN IF ShouldFlush(session_text) THEN "g104" ELSE "g105"
                ELSE "g109"
    /\ waited' = IF pc' = "g109" THEN 0 ELSE waited
    /\ exc' = ""                   \* `continue` left the except clause
    /\ UNCHANGED << mainVars, session_text, last_speech_time, text, data, rec,
                    heard, frags, queueVars, sinkVars, now, stream_open,
                    ended_by >>

\* line 104: save_transcript(f"{lang['name']}: {session_text.strip()}")
GoogleSave ==
    /\ pc = "g104"
    /\ transcript' = save_transcript(transcript, GoogleLine(lang, session_text))
    /\ pc' = "g105"
    /\ UNCHANGED << mainVars, sessionVars, queueVars, errors, now, waited,
                    stream_open, ended_by >>

\* line 105-106: print and break; the function returns to main()
GoogleBreak ==
    /\ pc = "g105"
    /\ pc' = "again"
    /\ ended_by' = "silence"
    /\ UNCHANGED << mainVars, sessionVars, queueVars, sinkVars, now, waited,
                    stream_open >>

\* line 109-110 and the except clauses 114-118: one listen + recognize round
GoogleListen(outcome, raw) ==
    /\ pc = "g109"
    /\ ListenReturns(outcome, waited)
    /\ IF outcome = "text"
          THEN /\ Strip(raw) # <<>> => Len(heard) < MaxFragments
               /\ text' = raw
               /\ exc' = exc
               /\ heard' = IF Strip(raw) # <<>>
                              THEN Append(heard, Strip(raw)) ELSE heard
               /\ pc' = "g111"
          ELSE /\ raw = <<>>
               /\ text' = text
               /\ exc' = outcome
               /\ heard' = heard
               /\ pc' = IF LogsError(outcome) THEN "g119" ELSE "g101"
    /\ UNCHANGED << mainVars, session_text, last_speech_time, data, rec,
                    frags, queueVars, sinkVars, now, waited, stream_open,
                    ended_by >>

\* line 111-113
GoogleAccumulate ==
    /\ pc = "g111"
    /\ IF Truthy(Strip(text))
          THEN /\ last_speech_time' = now
               /\ session_text' = AppendFragment(session_text, Strip(text))
               /\ frags' = Append(frags, Strip(text))
          ELSE UNCHANGED << last_speech_time, session_text, frags >>
    /\ text' = <<>>                \* rebound by the next round
    /\ pc' = "g101"
    /\ UNCHANGED << mainVars, exc, data, rec, heard, queueVars,
                    sinkVars, now, waited, stream_open, ended_by >>

\* line 119-120: print, log_error(e)
GoogleLogError ==
    /\ pc = "g119"
    /\ errors' = log_error(errors, exc)
    /\ pc' = "g121"
    /\ UNCHANGED << mainVars, sessionVars, queueVars, transcript, now, waited,
                    stream_open, ended_by >>

\* line 121: break; the function returns to main()
GoogleErrorBreak ==
    /\ pc = "g121"
    /\ pc' = AfterErrorLogged
    /\ ended_by' = IF pc' = "again" THEN "error" ELSE ended_by
    /\ UNCHANGED << mainVars, sessionVars, queueVars, sinkVars, now, waited,
                    stream_open >>

\* line 122-126: KeyboardInterrupt raised anywhere inside the try block
GoogleInterrupt ==
    /\ pc \in GooglePcs
    /\ transcript' = IF ShouldFlush(session_text)
                        THEN save_transcript(transcript,
                                             GoogleLine(lang, session_text))
                        ELSE transcript
    /\ pc' = "again"
    /\ ended_by' = "interrupt"
    /\ waited' = 0
    /\ UNCHANGED << mainVars, sessionVars, queueVars, errors, now,
                    stream_open >>

(***************************************************************************)
(* callback and recognize_vosk_stream(model_path)                          *)
(***************************************************************************)
\* line 132-139: the audio subsystem delivers one frame; q.put(frame)
callback ==
    /\ stream_open
    /\ enqueued < MaxFrames
    /\ IF QueueFull(q)
          THEN /\ ~cb_blocked
               /\ cb_blocked' = TRUE
               /\ UNCHANGED << q, enqueued >>
          ELSE /\ cb_blocked' = FALSE
               /\ q' = Append(q, NewFrame)
               /\ enqueued' = enqueued + 1
    /\ UNCHANGED << pc, mainVars, sessionVars, dequeued, sinkVars, now, waited,
                    stream_open, ended_by >>

\* line 157-158
VoskCheck ==
    /\ pc = "v157"
    /\ pc' = IF SilenceExpired(now, last_speech_time)
                THEN IF ShouldFlush(session_text) THEN "v160" ELSE "v161"
                ELSE "v165"
    /\ waited' = IF pc' = "v165" THEN 0 ELSE waited
    /\ UNCHANGED << mainVars, sessionVars, queueVars, sinkVars, now,
                    stream_open, ended_by >>

\* line 160: save_transcript(session_text.strip())
VoskSave ==
    /\ pc = "v160"
    /\ transcript' = save_transcript(transcript, VoskLine(session_text))
    /\ pc' = "v161"
    /\ UNCHANGED << mainVars, sessionVars, queueVars, errors, now, waited,
                    stream_open, ended_by >>

\* line 161-162: print and break; leaving the with block closes the stream
VoskBreak ==
    /\ pc = "v161"
    /\ pc' = "again"
    /\ ended_by' = "silence"
    /\ stream_open' = CloseStream(stream_open)
    /\ UNCHANGED << mainVars, sessionVars, queueVars, sinkVars, now, waited >>

\* line 165: q.get(timeout=0.1) returns the oldest frame
VoskGet ==
    /\ pc = "v165"
    /\ q # <<>>
    /\ data' = Head(q)
    /\ q' = Tail(q)
    /\ dequeued' = dequeued + 1
    /\ pc' = "v170"
    /\ UNCHANGED << mainVars, session_text, last_speech_time, text, exc, rec,
                    heard, frags, cb_blocked, enqueued, sinkVars,
                    now, waited, stream_open, ended_by >>

\* line 166-167: queue.Empty -> continue
VoskEmpty ==
    /\ pc = "v165"
    /\ q = <<>>
    /\ pc' = "v157"
    /\ UNCHANGED << mainVars, sessionVars, queueVars, sinkVars, now, waited,
                    stream_open, ended_by >>

\* line 169-170: a frame of blocksize 8000 is never empty, so `if data:`
\* passes; rec.AcceptWaveform(data) either finalises a phrase (whose text
\* may be empty) or leaves the decoder with a partial hypothesis
AcceptWaveform(final, t) ==
    /\ pc = "v170"
    /\ IF final THEN t \in RawTexts ELSE t \in PartialTexts
    /\ (final /\ Strip(t) # <<>>) => Len(heard) < MaxFragments
    /\ rec' = [final |-> final, text |-> t]
    /\ data' = NoFrame             \* consumed by the decoder
    /\ heard' = IF final /\ Strip(t) # <<>>
                   THEN Append(heard, Strip(t)) ELSE heard
    /\ pc' = "v171"
    /\ UNCHANGED << mainVars, session_text, last_speech_time, text, exc,
                    frags, queueVars, sinkVars, now, waited, stream_open, ended_by >>

\* line 171-178: use the decoder's answer
VoskResult ==
    /\ pc = "v171"
    /\ IF rec.final
          THEN IF Truthy(ResultText(rec))
                  THEN /\ last_speech_time' = now
                       /\ session_text' =
                              AppendFragment(session_text, ResultText(rec))
                       /\ frags' = Append(frags, ResultText(rec))
                  ELSE UNCHANGED << last_speech_time, session_text, frags >>
          ELSE /\ last_speech_time' =
                      ClockAfterPartial(last_speech_time, now, rec.text)
               /\ UNCHANGED << session_text, frags >>
    /\ rec' = NoRec                \* Result()/PartialResult() were read
    /\ pc' = "v157"
    /\ UNCHANGED << mainVars, text, exc, data, heard, queueVars,
                    sinkVars, now, waited, stream_open, ended_by >>

\* line 179-183: KeyboardInterrupt raised anywhere inside the try block;
\* the exception handler runs inside the with block, which then closes
VoskInterrupt ==
    /\ pc \in VoskPcs
    /\ transcript' = IF ShouldFlush(session_text)
                        THEN save_transcript(transcript, VoskLine(session_text))
                        ELSE transcript
    /\ pc' = "again"
    /\ ended_by' = "interrupt"
    /\ waited' = 0
    /\ stream_open' = CloseStream(stream_open)
    /\ UNCHANGED << mainVars, sessionVars, queueVars, errors, now >>

Next ==
    \/ \E inp \in Inputs : WaitForStart(inp)
    \/ \E inp \in Inputs : ChooseLanguage(inp)
    \/ \E o \in ProbeOutcomes : has_internet(o)
    \/ EnterDriver
    \/ \E inp \in Inputs : Again(inp)
    \/ Tick
    \/ GoogleCheck
    \/ GoogleSave
    \/ GoogleBreak
    \/ \E o \in ListenOutcomes, raw \in RawTexts : GoogleListen(o, raw)
    \/ GoogleAccumulate
    \/ GoogleLogError
    \/ GoogleErrorBreak
    \/ GoogleInterrupt
    \/ callback
    \/ VoskCheck
    \/ VoskSave
    \/ VoskBreak
    \/ VoskGet
    \/ VoskEmpty
    \/ \E f \in BOOLEAN, t \in RawTexts \cup PartialTexts : AcceptWaveform(f, t)
    \/ VoskResult
    \/ VoskInterrupt

Spec == Init /\ [][Next]_vars

\* The foreground thread keeps running: every statement it has reached is
\* eventually executed, every listen() call returns, and time passes while
\* it waits.  Nothing obliges the user to interrupt or the capture thread to
\* deliver frames.
FairSpec ==
    /\ Spec
    /\ WF_vars(Tick)
    /\ WF_vars(GoogleCheck)
    /\ WF_vars(\E o \in ListenOutcomes, raw \in RawTexts : GoogleListen(o, raw))
    /\ WF_vars(GoogleAccumulate)
    /\ WF_vars(GoogleSave)
    /\ WF_vars(GoogleBreak)
    /\ WF_vars(GoogleLogError)
    /\ WF_vars(GoogleErrorBreak)

TypeOK ==
    /\ pc \in {"start", "choose", "probe", "m194", "again", "exit"}
                 \cup GooglePcs \cup VoskPcs
    /\ backend \in {"none", "google", "vosk"}
    /\ now \in 0..MaxTime
    /\ waited \in 0..(listen_timeout + phrase_time_limit)
    /\ last_speech_time \in 0..MaxTime
    /\ enqueued \in 0..MaxFrames
    /\ stream_open \in BOOLEAN
    /\ cb_blocked \in BOOLEAN

(***************************************************************************)
(* Properties                                                              *)
(***************************************************************************)
\* fragments joined by single spaces, in order
RECURSIVE JoinSp(_)
JoinSp(fs) ==
    IF fs = <<>> THEN <<>>
    ELSE IF Len(fs) = 1 THEN fs[1]
    ELSE fs[1] \o <<" ">> \o JoinSp(Tail(fs))

InDriver == pc \in GooglePcs \cup VoskPcs
LastLine == transcript[Len(transcript)]

\* C1: when the cloud recogniser's request-level failure ends an online
\* session after fragments were accumulated, the accumulated text has been
\* written to the transcript (and the failure to the error log).
C1_FailureFlushesText ==
    (pc = "again" /\ ended_by = "error" /\ frags # <<>>)
        => /\ transcript # <<>>
           /\ LastLine.text = JoinSp(frags)
           /\ Len(errors) = 1

\* C2: at a silence timeout the persisted text is the recognised non-empty
\* fragments joined by single spaces in the order they were recognised, with
\* no leading or trailing blank; none is dropped, duplicated or reordered.
C2_SilenceFlushJoins ==
    ((pc \in {"g105", "v161"} \/ (pc = "again" /\ ended_by = "silence"))
        /\ heard # <<>>)
        => /\ transcript # <<>>
           /\ LastLine.text = JoinSp(heard)
           /\ LastLine.text = Strip(LastLine.text)
           /\ LastLine.prefix = (IF backend = "google" THEN lang.name ELSE "")

C2_Witness ==
    /\ pc = "again"
    /\ ended_by = "silence"
    /\ heard = << <<"b">>, <<"a">> >>
    /\ Len(transcript) = 1
    /\ LastLine.text = <<"b", " ", "a">>

\* C3: a session writes the transcript at most once, and never while it is
\* still listening, wherever in the loop the manual interrupt arrives.
C3_WrittenOnce ==
    /\ Len(transcript) <= 1
    /\ Listening => transcript = <<>>

\* C4: the manual interrupt, wherever in the loop it arrives, appends to the
\* transcript exactly the text of the fragments accumulated so far (nothing
\* if there are none) and does not write the error log.
C4_InterruptFlushes ==
    [][ (InDriver /\ pc' = "again" /\ ended_by' = "interrupt")
          => /\ errors' = errors
             /\ transcript' =
                  IF frags = <<>> THEN transcript
                  ELSE Append(transcript,
                              [prefix |-> IF backend = "google"
                                             THEN lang.name ELSE "",
                               text |-> JoinSp(frags)]) ]_vars

C4_Witness ==
    /\ pc = "again"
    /\ ended_by = "interrupt"
    /\ backend = "vosk"
    /\ frags = << <<"a">> >>
    /\ heard = << <<"a">>, <<"b">> >>
    /\ transcript = << [prefix |-> "", text |-> <<"a">>] >>
    /\ errors = <<>>

\* C5: a session that accumulated no non-empty fragment leaves the
\* transcript file unchanged, however it ends.
C5_NothingPersisted == frags = <<>> => transcript = <<>>

C5_Witness ==
    /\ pc = "again"
    /\ ended_by \in {"silence", "interrupt"}
    /\ frags = <<>>
    /\ transcript = <<>>

\* C6: offline, a frame that did not finalise a phrase sets last_speech_time
\* to the current time and leaves the session text and the transcript alone;
\* every persisted line holds finalised fragments only.
C6_PartialResetsClockOnly ==
    /\ [][ (pc = "v171" /\ ~rec.final /\ pc' = "v157")
             => /\ last_speech_time' = now
                /\ session_text' = session_text
                /\ frags' = frags
                /\ transcript' = transcript ]_vars
    /\ [](\A i \in 1..Len(transcript) : transcript[i].text = JoinSp(frags))

C6_Witness ==
    /\ pc = "v157"
    /\ backend = "vosk"
    /\ heard = <<>>
    /\ last_speech_time > 0
    /\ last_speech_time = now
    /\ session_text = <<>>

\* C7: the online driver runs iff the connectivity probe succeeded; otherwise
\* the offline driver runs, for any language, with the Hindi model iff the
\* language code is hi-IN and the English model otherwise.
C7_BackendSelection ==
    InDriver =>
        /\ lang \in {LANGUAGES[c] : c \in DOMAIN LANGUAGES}
        /\ (backend = "google") <=> has_net
        /\ (backend = "vosk") <=> ~has_net
        /\ (pc \in GooglePcs) <=> has_net
        /\ (pc \in VoskPcs) <=> ~has_net
        /\ ~has_net =>
             model_path = (IF lang.code = "hi-IN"
                              THEN "vosk-model-hi-0.22"
                              ELSE "vosk-model-en-in-0.5")

C7_Witness ==
    /\ pc \in VoskPcs
    /\ ~has_net
    /\ lang.code = "mr-IN"
    /\ model_path = "vosk-model-en-in-0.5"

\* C8: a line is appended to the error log only by the online driver, and
\* only for a request-level failure of the cloud recogniser.
C8_OnlyRequestFailuresLogged ==
    /\ [][ Len(errors') > Len(errors)
             => /\ backend = "google"
                /\ exc = "RequestError"
                /\ errors' = Append(errors, "RequestError") ]_vars
    /\ [](backend = "vosk" => errors = <<>>)

C8_Witness ==
    /\ pc = "again"
    /\ errors = << "RequestError" >>

\* a decoder answer that carries no speech: a finalised phrase with no text,
\* or no finalised phrase and an empty partial hypothesis
NoSpeech(r) == IF r.final THEN Strip(r.text) = <<>> ELSE r.text = <<>>

\* C9: offline, a frame that yields neither a non-empty finalised phrase nor
\* a partial hypothesis leaves last_speech_time unchanged.
C9_NoSpeechKeepsClock ==
    [][ (pc = "v171" /\ pc' = "v157" /\ NoSpeech(rec))
          => last_speech_time' = last_speech_time ]_vars

C11_NoOpRounds ==
    [][ (pc = "g109" /\ pc' \notin {"g109", "g111", "again"}
           /\ exc' \in {"WaitTimeoutError", "UnknownValueError"})
          => /\ pc' = "g101"
             /\ session_text' = session_text
             /\ last_speech_time' = last_speech_time
             /\ frags' = frags
             /\ transcript' = transcript
             /\ errors' = errors ]_vars

C11_Witness ==
    /\ pc = "g101"
    /\ exc = "UnknownValueError"
    /\ frags # <<>>
    /\ now - last_speech_time >= 1
    /\ transcript = <<>>

\* C12: an online session in which every listen call returns ends; if no
\* request failure and no interrupt ended it, the silence check did.
C12_SilenceEndsSession ==
    /\ (pc \in GooglePcs) ~> (pc = "again")
    /\ []((pc = "again" /\ backend = "google" /\ ended_by # "silence")
            => (ended_by = "interrupt" \/ exc = "RequestError"))

C12_Witness ==
    /\ pc = "again"
    /\ backend = "google"
    /\ ended_by = "silence"
    /\ exc = ""
    /\ waited >= 1
    /\ heard # <<>>

\* time since the last speech activity
Delay == now - last_speech_time

C14_FailureEndsSession ==
    /\ [][ (pc \in {"g119", "g121"}
              => (pc' \in {"g119", "g121", "again"})) ]_vars
    /\ [](Len(errors) <= 1)
    /\ []((pc = "again" /\ ended_by = "error") => errors = << "RequestError" >>)

C14_Witness ==
    /\ pc = "again"
    /\ ended_by = "error"
    /\ errors = << "RequestError" >>
    /\ frags # <<>>

\* C15: offline, the capture stream is open exactly while the decode loop
\* runs; once it is closed the callback puts no further frame on the queue.
C15_StreamScoped ==
    /\ [](stream_open <=> pc \in VoskPcs)
    /\ [][ ~stream_open => (enqueued' = enqueued /\ Len(q') <= Len(q)) ]_vars

C15_Witness ==
    /\ pc = "again"
    /\ backend = "vosk"
    /\ ended_by = "interrupt"
    /\ ~stream_open
    /\ enqueued < MaxFrames

\* C16: a session starts with empty accumulated text, the queue it finds
\* holds no frame of an earlier session, and every frame it hands to the
\* decoder was captured during that session.
C16_SessionsIsolated ==
    /\ (InDriver /\ frags = <<>>) => session_text = <<>>
    /\ pc \in VoskPcs => \A i \in 1..Len(q) : q[i].session = "current"
    /\ pc = "v170" => data.session = "current"

====
